---- MODULE Spec2Model ----
(***************************************************************************)
(* Model of lambda_function.py: the invoice-extraction Lambda handler and  *)
(* its helpers validar_formato_rut, procesar_fechas_factura and            *)
(* procesar_datos_factura.                                                 *)
(*                                                                         *)
(* Python values are represented as follows.                               *)
(*   str    a sequence of one-character strings (the text is parsed and    *)
(*          formatted character by character, as the code does);           *)
(*          labels that the code never inspects are plain TLA+ strings     *)
(*   None   the empty tuple None; a value that may be None is wrapped,     *)
(*          Some(v) == <<v>>                                               *)
(*   dict   a function from key strings to wrapped values; an absent key   *)
(*          is a key outside the DOMAIN                                    *)
(***************************************************************************)
EXTENDS Integers, Sequences, FiniteSets, TLC

None == <<>>
Some(v) == <<v>>
IsNone(o) == o = <<>>
Val(o) == o[1]

\* dict.get(key, default)
DictGet(d, key, default) == IF key \in DOMAIN d THEN d[key] ELSE default

(***************************************************************************)
(* Characters and Python string methods                                    *)
(***************************************************************************)
Digits == <<"0", "1", "2", "3", "4", "5", "6", "7", "8", "9">>

DigitChars == {Digits[i] : i \in 1..10}

IsDigitChar(c) == c \in DigitChars

DigitVal(c) == (CHOOSE i \in 1..10 : Digits[i] = c) - 1

\* string.whitespace, as used by str.strip()
Whitespace == {" ", "\t", "\n", "\r"}

UpperCase == <<"A", "B", "C", "D", "E", "F", "G", "H", "I", "J", "K", "L", "M",
               "N", "O", "P", "Q", "R", "S", "T", "U", "V", "W", "X", "Y", "Z">>

LowerCase == <<"a", "b", "c", "d", "e", "f", "g", "h", "i", "j", "k", "l", "m",
               "n", "o", "p", "q", "r", "s", "t", "u", "v", "w", "x", "y", "z">>

Letters == {UpperCase[i] : i \in 1..26} \cup {LowerCase[i] : i \in 1..26}

\* str.upper() of one character
UpperChar(c) ==
    IF \E i \in 1..Len(LowerCase) : LowerCase[i] = c
    THEN UpperCase[CHOOSE i \in 1..Len(LowerCase) : LowerCase[i] = c]
    ELSE c

\* str.lower() of one character
LowerChar(c) ==
    IF \E i \in 1..Len(UpperCase) : UpperCase[i] = c
    THEN LowerCase[CHOOSE i \in 1..Len(UpperCase) : UpperCase[i] = c]
    ELSE c

StrUpper(s) == [i \in 1..Len(s) |-> UpperChar(s[i])]

StrLower(s) == [i \in 1..Len(s) |-> LowerChar(s[i])]

\* str.isdigit(): non-empty and every character a digit
StrIsDigit(s) == Len(s) > 0 /\ \A i \in 1..Len(s) : IsDigitChar(s[i])

\* s.replace(c, '') for a single character c
RemoveChar(s, c) == SelectSeq(s, LAMBDA x : x # c)

\* s.count(c)
CountChar(s, c) == Cardinality({i \in 1..Len(s) : s[i] = c})

\* s.find(c) as a 1-based index, 0 when c does not occur
FindChar(s, c) ==
    IF \E i \in 1..Len(s) : s[i] = c
    THEN CHOOSE i \in 1..Len(s) : s[i] = c /\ \A j \in 1..(i - 1) : s[j] # c
    ELSE 0

\* s.lstrip(chars)
RECURSIVE LStrip(_, _)
LStrip(s, chars) ==
    IF Len(s) > 0 /\ s[1] \in chars THEN LStrip(Tail(s), chars) ELSE s

\* s.rstrip(chars)
RECURSIVE RStrip(_, _)
RStrip(s, chars) ==
    IF Len(s) > 0 /\ s[Len(s)] \in chars
    THEN RStrip(SubSeq(s, 1, Len(s) - 1), chars)
    ELSE s

\* s.strip()
Strip(s) == RStrip(LStrip(s, Whitespace), Whitespace)

\* int(s) for a string of digits
RECURSIVE StrToInt(_)
StrToInt(s) ==
    IF Len(s) = 0 THEN 0
    ELSE 10 * StrToInt(SubSeq(s, 1, Len(s) - 1)) + DigitVal(s[Len(s)])

\* str(n) for n >= 0
RECURSIVE IntToStr(_)
IntToStr(n) ==
    IF n < 10 THEN <<Digits[n + 1]>>
    ELSE Append(IntToStr(n \div 10), Digits[(n % 10) + 1])

(***************************************************************************)
(* validar_formato_rut                                                     *)
(***************************************************************************)
\* the loop that inserts '.' every three digits from the right
RECURSIVE FormatearNumero(_, _, _)
FormatearNumero(numero_str, i, numero_formateado) ==
    IF i >= Len(numero_str) THEN numero_formateado
    ELSE LET digito == numero_str[Len(numero_str) - i]
             conPunto == IF i > 0 /\ i % 3 = 0
                         THEN <<".">> \o numero_formateado
                         ELSE numero_formateado
         IN  FormatearNumero(numero_str, i + 1, <<digito>> \o conPunto)

\* numero, dv = rut_limpio.split('-'), or the slice when there is no hyphen;
\* ok is FALSE where the code returns None or the unpacking raises
SepararRut(rut_limpio) ==
    IF CountChar(rut_limpio, "-") > 0
    THEN IF CountChar(rut_limpio, "-") # 1
         THEN [ok |-> FALSE, numero |-> <<>>, dv |-> <<>>]
         ELSE LET h == FindChar(rut_limpio, "-")
              IN  [ok |-> TRUE,
                   numero |-> SubSeq(rut_limpio, 1, h - 1),
                   dv |-> SubSeq(rut_limpio, h + 1, Len(rut_limpio))]
    ELSE IF Len(rut_limpio) < 2
         THEN [ok |-> FALSE, numero |-> <<>>, dv |-> <<>>]
         ELSE [ok |-> TRUE,
               numero |-> SubSeq(rut_limpio, 1, Len(rut_limpio) - 1),
               dv |-> <<rut_limpio[Len(rut_limpio)]>>]

\* the check on the verifier: dv.isdigit() or dv.upper() == 'K'
DvValido(dv) == StrIsDigit(dv) \/ StrUpper(dv) = <<"K">>

validar_formato_rut(rut_string) ==
    IF IsNone(rut_string) \/ Val(rut_string) = <<>> THEN None
    ELSE LET rut_limpio == Strip(RemoveChar(RemoveChar(Val(rut_string), "."), " "))
             partes == SepararRut(rut_limpio)
         IN  IF ~partes.ok THEN None
             ELSE IF ~StrIsDigit(partes.numero) THEN None
             ELSE IF Len(partes.numero) < 7 \/ Len(partes.numero) > 8 THEN None
             ELSE IF ~DvValido(partes.dv) THEN None
             ELSE IF StrToInt(partes.numero) < 1000000 THEN None
             ELSE Some(FormatearNumero(IntToStr(StrToInt(partes.numero)), 0, <<>>)
                       \o <<"-">> \o StrUpper(partes.dv))

(***************************************************************************)
(* datetime: dates are proleptic Gregorian ordinals (date.toordinal()),    *)
(* the current time is [dia |-> ordinal, hora |-> time of day], where      *)
(* hora = 0 is midnight exactly and hora > 0 any later time of that day.   *)
(***************************************************************************)
IsLeap(y) == (y % 4 = 0) /\ ((y % 100 # 0) \/ (y % 400 = 0))

DaysInMonth(y, m) ==
    IF m = 2 THEN (IF IsLeap(y) THEN 29 ELSE 28)
    ELSE IF m \in {4, 6, 9, 11} THEN 30 ELSE 31

DaysBeforeYear(y) ==
    (y - 1) * 365 + ((y - 1) \div 4) - ((y - 1) \div 100) + ((y - 1) \div 400)

RECURSIVE DaysBeforeMonth(_, _)
DaysBeforeMonth(y, m) ==
    IF m = 1 THEN 0 ELSE DaysBeforeMonth(y, m - 1) + DaysInMonth(y, m - 1)

\* datetime(y, m, d).toordinal()
YmdToOrd(y, m, d) == DaysBeforeYear(y) + DaysBeforeMonth(y, m) + d

\* datetime.max.toordinal(), 9999-12-31
MaxOrdinal == 3652059

OrdYear(n) ==
    LET guess == (n * 400) \div 146097
    IN  CHOOSE y \in (guess - 1)..(guess + 2) :
            DaysBeforeYear(y) < n /\ n <= DaysBeforeYear(y + 1)

OrdMonth(n) ==
    LET y == OrdYear(n)
        r == n - DaysBeforeYear(y)
    IN  CHOOSE m \in 1..12 :
            DaysBeforeMonth(y, m) < r /\ r <= DaysBeforeMonth(y, m) + DaysInMonth(y, m)

OrdDay(n) == n - DaysBeforeYear(OrdYear(n)) - DaysBeforeMonth(OrdYear(n), OrdMonth(n))

\* zero-padded two-digit field of strftime (%m, %d)
TwoDigits(n) == <<Digits[(n \div 10) + 1], Digits[(n % 10) + 1]>>

\* d.strftime('%Y-%m-%d'); %Y is not padded by the C library, which is the
\* same text for every year from 1000 on
Strftime(n) ==
    IntToStr(OrdYear(n)) \o <<"-">> \o TwoDigits(OrdMonth(n)) \o <<"-">>
        \o TwoDigits(OrdDay(n))

\* the directive %m: 1[0-2] | 0[1-9] | [1-9]
MatchesMonth(s) ==
    \/ Len(s) = 2 /\ s[1] = "1" /\ s[2] \in {"0", "1", "2"}
    \/ Len(s) = 2 /\ s[1] = "0" /\ IsDigitChar(s[2]) /\ s[2] # "0"
    \/ Len(s) = 1 /\ IsDigitChar(s[1]) /\ s[1] # "0"

\* the directive %d: 3[01] | [12]\d | 0[1-9] | [1-9] | ' '[1-9]
MatchesDay(s) ==
    \/ Len(s) = 2 /\ s[1] = "3" /\ s[2] \in {"0", "1"}
    \/ Len(s) = 2 /\ s[1] \in {"1", "2"} /\ IsDigitChar(s[2])
    \/ Len(s) = 2 /\ s[1] \in {"0", " "} /\ IsDigitChar(s[2]) /\ s[2] # "0"
    \/ Len(s) = 1 /\ IsDigitChar(s[1]) /\ s[1] # "0"

\* datetime.strptime(s, '%Y-%m-%d'): [ok |-> FALSE] stands for ValueError
Strptime(s) ==
    LET bad == [ok |-> FALSE, ord |-> 0]
    IN  IF Len(s) < 8 \/ ~StrIsDigit(SubSeq(s, 1, 4)) \/ s[5] # "-" THEN bad
        ELSE LET rest == SubSeq(s, 6, Len(s))
                 h == FindChar(rest, "-")
             IN  IF h = 0 THEN bad
                 ELSE LET ms == SubSeq(rest, 1, h - 1)
                          ds == SubSeq(rest, h + 1, Len(rest))
                      IN  IF ~MatchesMonth(ms) \/ ~MatchesDay(ds) THEN bad
                          ELSE LET y == StrToInt(SubSeq(s, 1, 4))
                                   m == StrToInt(ms)
                                   d == StrToInt(RemoveChar(ds, " "))
                               IN  IF y < 1 \/ d > DaysInMonth(y, m) THEN bad
                                   ELSE [ok |-> TRUE, ord |-> YmdToOrd(y, m, d)]

\* the two "if x: try strptime except ValueError: None" blocks
ParsearFecha(fecha) ==
    IF IsNone(fecha) \/ Val(fecha) = <<>> THEN None
    ELSE IF Strptime(Val(fecha)).ok THEN Some(Strptime(Val(fecha)).ord)
    ELSE None

\* timedelta(days=30)
DiasPlazo == 30

\* CalcularDiasMora without the comparison that guards the subtraction
CalcularDiasMoraSinGuarda(fecha_actual, vencimiento) ==
    fecha_actual.dia - vencimiento

\* fecha_actual > fecha_vencimiento, and (fecha_actual - fecha_vencimiento).days
CalcularDiasMora(fecha_actual, vencimiento) ==
    IF fecha_actual.dia > vencimiento
           \/ (fecha_actual.dia = vencimiento /\ fecha_actual.hora > 0)
    THEN fecha_actual.dia - vencimiento
    ELSE 0

\* the result of the outer "except Exception" branch
FechasPorDefecto(fecha_actual) ==
    [invoice_date |-> None, due_date |-> None, dias_mora |-> 0,
     fecha_actual |-> Strftime(fecha_actual.dia)]

procesar_fechas_factura(invoice_date, due_date, fecha_actual) ==
    LET fecha_emision == ParsearFecha(invoice_date)
        vencimiento_leido == ParsearFecha(due_date)
        calcula == IsNone(vencimiento_leido) /\ ~IsNone(fecha_emision)
    IN  IF calcula /\ Val(fecha_emision) + DiasPlazo > MaxOrdinal
        THEN FechasPorDefecto(fecha_actual)     \* OverflowError
        ELSE LET fecha_vencimiento ==
                     IF calcula THEN Some(Val(fecha_emision) + DiasPlazo)
                     ELSE vencimiento_leido
                 dias_mora ==
                     IF IsNone(fecha_vencimiento) THEN 0
                     ELSE CalcularDiasMora(fecha_actual, Val(fecha_vencimiento))
             IN  [invoice_date |->
                      IF IsNone(fecha_emision) THEN None
                      ELSE Some(Strftime(Val(fecha_emision))),
                  due_date |->
                      IF IsNone(fecha_vencimiento) THEN None
                      ELSE Some(Strftime(Val(fecha_vencimiento))),
                  dias_mora |-> dias_mora,
                  fecha_actual |-> Strftime(fecha_actual.dia)]

(***************************************************************************)
(* urllib.parse.urlparse, the part that produces scheme, netloc and path   *)
(***************************************************************************)
\* urllib.parse.scheme_chars
SchemeChars == Letters \cup DigitChars \cup {"+", "-", "."}

\* index of the first of '/', '?', '#' at or after position from, else Len+1
RECURSIVE FindDelim(_, _)
FindDelim(url, from) ==
    IF from > Len(url) THEN Len(url) + 1
    ELSE IF url[from] \in {"/", "?", "#"} THEN from
    ELSE FindDelim(url, from + 1)

\* the text before the first occurrence of c (all of it when c is absent)
BeforeChar(s, c) ==
    IF FindChar(s, c) = 0 THEN s ELSE SubSeq(s, 1, FindChar(s, c) - 1)

\* [ok |-> FALSE] stands for the ValueError of an unbalanced '[' or ']'
urlparse(url) ==
    LET i == FindChar(url, ":")
        hasScheme == /\ i > 1
                     /\ url[1] \in Letters
                     /\ \A j \in 1..(i - 1) : url[j] \in SchemeChars
        scheme == IF hasScheme THEN StrLower(SubSeq(url, 1, i - 1)) ELSE <<>>
        rest == IF hasScheme THEN SubSeq(url, i + 1, Len(url)) ELSE url
        hasNetloc == Len(rest) >= 2 /\ rest[1] = "/" /\ rest[2] = "/"
        delim == FindDelim(rest, 3)
        netloc == IF hasNetloc THEN SubSeq(rest, 3, delim - 1) ELSE <<>>
        afterNetloc == IF hasNetloc THEN SubSeq(rest, delim, Len(rest)) ELSE rest
        noFragment == BeforeChar(afterNetloc, "#")
        path == BeforeChar(noFragment, "?")
    IN  [ok |-> (CountChar(netloc, "[") > 0) = (CountChar(netloc, "]") > 0),
         scheme |-> scheme, netloc |-> netloc, path |-> path]

\* the result of lines 200-217: the bucket and key, or the ValueError raised
LocalizarDocumento(s3_path) ==
    IF IsNone(s3_path) \/ Val(s3_path) = <<>>
    THEN [ok |-> FALSE, error |-> "path no encontrado",
          bucket_name |-> <<>>, file_key |-> <<>>]
    ELSE LET parsed_url == urlparse(Val(s3_path))
             bucket == parsed_url.netloc
             key == LStrip(parsed_url.path, {"/"})
         IN  IF ~parsed_url.ok
             THEN [ok |-> FALSE, error |-> "Invalid IPv6 URL",
                   bucket_name |-> <<>>, file_key |-> <<>>]
             ELSE IF parsed_url.scheme # <<"s", "3">>
             THEN [ok |-> FALSE, error |-> "URI de S3 no valida",
                   bucket_name |-> <<>>, file_key |-> <<>>]
             ELSE IF bucket = <<>> \/ key = <<>>
             THEN [ok |-> FALSE, error |-> "bucket o archivo vacio",
                   bucket_name |-> <<>>, file_key |-> <<>>]
             ELSE [ok |-> TRUE, error |-> "",
                   bucket_name |-> bucket, file_key |-> key]

\* the text after the last occurrence of c: s.split(c)[-1]
RECURSIVE AfterLastChar(_, _)
AfterLastChar(s, c) ==
    IF FindChar(s, c) = 0 THEN s
    ELSE AfterLastChar(SubSeq(s, FindChar(s, c) + 1, Len(s)), c)

\* lines 258-264
MimeType(key) ==
    LET ext == StrLower(AfterLastChar(key, "."))
        file_type == IF ext = <<"j", "p", "g">> THEN <<"j", "p", "e", "g">> ELSE ext
    IN  IF file_type = <<"p", "d", "f">>
        THEN <<"a", "p", "p", "l", "i", "c", "a", "t", "i", "o", "n", "/", "p", "d", "f">>
        ELSE <<"i", "m", "a", "g", "e", "/">> \o file_type

(***************************************************************************)
(* The text returned by the model and its decoding.  A text is a sequence  *)
(* of tokens: a backtick, the word json, white space, a JSON object        *)
(* literal (one token per candidate record), a JSON array literal, the     *)
(* literal null, or prose that is not JSON.                                *)
(***************************************************************************)
\* s.replace(pat, ''): every non-overlapping occurrence, left to right
RECURSIVE Replace(_, _)
Replace(s, pat) ==
    IF Len(s) < Len(pat) THEN s
    ELSE IF SubSeq(s, 1, Len(pat)) = pat
    THEN Replace(SubSeq(s, Len(pat) + 1, Len(s)), pat)
    ELSE <<s[1]>> \o Replace(Tail(s), pat)

\* the literal of three backticks followed by json
FenceJson == <<"backtick", "backtick", "backtick", "json">>

\* the literal of three backticks
Fence == <<"backtick", "backtick", "backtick">>

\* line 381
LimpiarTexto(raw_json_text) ==
    Strip(Replace(Replace(Strip(raw_json_text), FenceJson), Fence))

RutConPuntos == <<"7", "6", ".", "1", "2", "3", ".", "4", "5", "6", "-", "k">>

RutSinGuion == <<"1", "2", "3", "4", "5", "6", "7", "8", "5">>

RutCorto == <<"1", "2", "3", "4", "-", "5">>

Fecha20240101 == <<"2", "0", "2", "4", "-", "0", "1", "-", "0", "1">>

Fecha20240215 == <<"2", "0", "2", "4", "-", "0", "2", "-", "1", "5">>

FechaConBarras == <<"0", "1", "/", "0", "2", "/", "2", "0", "2", "4">>

\* the keys of datos_procesados, lines 160-178
CamposFactura ==
    {"invoice_date", "due_date", "total_amount", "invoice_number", "currency",
     "supplier_name", "supplier_rut", "supplier_address", "supplier_giro",
     "supplier_ciudad", "supplier_comuna", "customer_name", "customer_rut",
     "customer_address", "customer_giro", "customer_comuna", "customer_ciudad",
     "purchase_order", "reference_folio"}

\* a record in which the model found every field
FacturaCompleta ==
    [k \in CamposFactura |->
        CASE k = "invoice_date" -> Some(Fecha20240101)
          [] k = "due_date" -> Some(Fecha20240215)
          [] k = "total_amount" -> Some(1190)
          [] k = "supplier_rut" -> Some(RutConPuntos)
          [] k = "customer_rut" -> Some(RutSinGuion)
          [] OTHER -> Some(k)]

\* a record with nulls, a malformed tax id and date, and no amount key
FacturaSinMonto ==
    [k \in CamposFactura \ {"total_amount", "reference_folio"} |->
        CASE k = "invoice_date" -> Some(Fecha20240101)
          [] k = "due_date" -> Some(FechaConBarras)
          [] k = "supplier_rut" -> Some(RutCorto)
          [] k = "supplier_name" -> Some(k)
          [] OTHER -> None]

\* a record whose amount is the JSON null
FacturaMontoNulo ==
    [k \in CamposFactura |->
        CASE k = "customer_rut" -> Some(RutSinGuion)
          [] k = "currency" -> Some(k)
          [] OTHER -> None]

\* the JSON object {}
FacturaVacia == <<>>

\* the value a JSON literal token decodes to
ValorJson(token) ==
    CASE token = "{completa}" -> [kind |-> "dict", d |-> FacturaCompleta]
      [] token = "{sin_monto}" -> [kind |-> "dict", d |-> FacturaSinMonto]
      [] token = "{monto_nulo}" -> [kind |-> "dict", d |-> FacturaMontoNulo]
      [] token = "{}" -> [kind |-> "dict", d |-> FacturaVacia]
      [] token = "[]" -> [kind |-> "list", d |-> <<>>]
      [] token = "null" -> [kind |-> "null", d |-> <<>>]

LiteralesJson == {"{completa}", "{sin_monto}", "{monto_nulo}", "{}", "[]", "null"}

\* json.loads: one JSON value, white space allowed around it;
\* [ok |-> FALSE] stands for JSONDecodeError
json_loads(text) ==
    LET t == Strip(text)
    IN  IF Len(t) = 1 /\ t[1] \in LiteralesJson
        THEN [ok |-> TRUE, value |-> ValorJson(t[1])]
        ELSE [ok |-> FALSE, value |-> [kind |-> "null", d |-> <<>>]]

\* ParsearRespuesta with a decoding failure turned into an empty record
ParsearRespuestaTolerante(raw_json_text) ==
    IF json_loads(LimpiarTexto(raw_json_text)).ok
    THEN json_loads(LimpiarTexto(raw_json_text))
    ELSE [ok |-> TRUE, value |-> [kind |-> "dict", d |-> <<>>]]

\* lines 379-382: the decoded value, or the exception that leaves the handler
ParsearRespuesta(raw_json_text) == json_loads(LimpiarTexto(raw_json_text))

(***************************************************************************)
(* procesar_datos_factura and the assembly of the final record             *)
(***************************************************************************)
\* lines 142-185; a value that is not a dict has no .get, the AttributeError
\* is caught and the value is returned unchanged
procesar_datos_factura(datos_extraidos) ==
    IF datos_extraidos.kind # "dict" THEN datos_extraidos
    ELSE [kind |-> "dict",
          d |-> [k \in CamposFactura |->
                    CASE k = "supplier_rut" ->
                             validar_formato_rut(DictGet(datos_extraidos.d, k, None))
                      [] k = "customer_rut" ->
                             validar_formato_rut(DictGet(datos_extraidos.d, k, None))
                      [] k = "total_amount" ->
                             DictGet(datos_extraidos.d, k, Some(0))
                      [] OTHER -> DictGet(datos_extraidos.d, k, None)]]

CamposResultado ==
    CamposFactura \cup {"dias_mora", "fecha_actual", "quoting_batch_id", "path_document"}

\* lines 392-406
ResultadoFinal(datos_validados, fecha_actual, quoting_batch_id, key) ==
    LET fechas_procesadas ==
            procesar_fechas_factura(DictGet(datos_validados, "invoice_date", None),
                                    DictGet(datos_validados, "due_date", None),
                                    fecha_actual)
    IN  [k \in CamposResultado |->
            CASE k = "invoice_date" -> fechas_procesadas.invoice_date
              [] k = "due_date" -> fechas_procesadas.due_date
              [] k = "dias_mora" -> fechas_procesadas.dias_mora
              [] k = "fecha_actual" -> fechas_procesadas.fecha_actual
              [] k = "quoting_batch_id" -> quoting_batch_id
              [] k = "path_document" -> key
              [] OTHER -> datos_validados[k]]

\* DatosPorDefecto with the amount null-filled like the other fields
DatosPorDefectoSinMonto(fecha_actual, quoting_batch_id, key) ==
    [k \in CamposResultado |->
        CASE k = "dias_mora" -> 0
          [] k = "fecha_actual" -> Strftime(fecha_actual.dia)
          [] k = "quoting_batch_id" -> quoting_batch_id
          [] k = "path_document" -> key
          [] OTHER -> None]

\* lines 349-373
DatosPorDefecto(fecha_actual, quoting_batch_id, key) ==
    [k \in CamposResultado |->
        CASE k = "total_amount" -> Some(0)
          [] k = "dias_mora" -> 0
          [] k = "fecha_actual" -> Strftime(fecha_actual.dia)
          [] k = "quoting_batch_id" -> quoting_batch_id
          [] k = "path_document" -> key
          [] OTHER -> None]

(***************************************************************************)
(* The three responses of handler                                          *)
(***************************************************************************)
\* lines 345-376
RespuestaGeminiError(fecha_actual, quoting_batch_id, key, gemini_error) ==
    [statusCode |-> 200,
     body |-> [message |-> "Error al procesar con Gemini, devolviendo datos por defecto",
               extracted_data |-> DatosPorDefecto(fecha_actual, quoting_batch_id, key),
               gemini_error |-> gemini_error]]

\* lines 446-455
RespuestaExitosa(resultado, total_time) ==
    [statusCode |-> 200,
     body |-> [message |-> "Factura procesada exitosamente!",
               extracted_data |-> resultado,
               processing_time |-> total_time]]

\* lines 457-467
RespuestaError(error, total_time) ==
    [statusCode |-> 500,
     body |-> [error |-> error, processing_time |-> total_time]]

(***************************************************************************)
(* Inputs of one invocation                                                *)
(***************************************************************************)
\* s3://b/k.pdf
RutaPdf == <<"s", "3", ":", "/", "/", "b", "/", "k", ".", "p", "d", "f">>

\* s3://b/k/s.jpg
RutaSub == <<"s", "3", ":", "/", "/", "b", "/", "k", "/", "s", ".", "j", "p", "g">>

\* s3://b/a#1.pdf
RutaAlmohadilla == <<"s", "3", ":", "/", "/", "b", "/", "a", "#", "1", ".", "p", "d", "f">>

\* s3://b/a?v.png
RutaInterrogacion == <<"s", "3", ":", "/", "/", "b", "/", "a", "?", "v", ".", "p", "n", "g">>

\* s3://b//k.pdf
RutaDobleBarra == <<"s", "3", ":", "/", "/", "b", "/", "/", "k", ".", "p", "d", "f">>

\* S3://b/K.PDF
RutaMayusculas == <<"S", "3", ":", "/", "/", "b", "/", "K", ".", "P", "D", "F">>

\* http://b/k.pdf
RutaHttp == <<"h", "t", "t", "p", ":", "/", "/", "b", "/", "k", ".", "p", "d", "f">>

\* s3://b/
RutaSinClave == <<"s", "3", ":", "/", "/", "b", "/">>

\* s3:///k.pdf
RutaSinBucket == <<"s", "3", ":", "/", "/", "/", "k", ".", "p", "d", "f">>

\* b/k.pdf
RutaSinEsquema == <<"b", "/", "k", ".", "p", "d", "f">>

Rutas ==
    {RutaPdf, RutaSub, RutaAlmohadilla, RutaInterrogacion, RutaDobleBarra,
     RutaMayusculas, RutaHttp, RutaSinClave, RutaSinBucket, RutaSinEsquema, <<>>}

\* d with key k set to v
Put(d, k, v) == [x \in (DOMAIN d) \cup {k} |-> IF x = k THEN v ELSE d[x]]

\* d with key k set when o is Some(value), left out when o is None
PutOpt(d, k, o) == IF IsNone(o) THEN d ELSE Put(d, k, Val(o))

\* the event dicts: each key may be absent
Eventos ==
    {PutOpt(PutOpt(PutOpt(<<>>, "path", p), "quoting_batch_id", b), "environment", e) :
        p \in {None} \cup {Some(Some(r)) : r \in Rutas},
        b \in {None, Some(Some("batch-1"))},
        e \in {None, Some(Some("development")), Some(Some("production"))}}

\* os.environ restricted to the two webhook variables
Entornos ==
    {PutOpt(PutOpt(<<>>, "WEBHOOK_URL", u), "WEBHOOK_URL_DEV", v) :
        u \in {None, Some(Some("https://hook.prod"))},
        v \in {None, Some(Some("")), Some(Some("https://hook.dev"))}}

\* len(file_content): empty, small, and just over the 10 MiB warning limit
LimiteAviso == 10 * 1024 * 1024

Tamanos == {0, 1, LimiteAviso + 1}

\* texts the model can answer with
Textos ==
    {<<"{completa}">>,
     <<"backtick", "backtick", "backtick", "json", "\n", "{completa}", "\n",
       "backtick", "backtick", "backtick">>,
     <<"backtick", "backtick", "backtick", "\n", "{sin_monto}", "\n",
       "backtick", "backtick", "backtick", "\n">>,
     <<" ", "{monto_nulo}", "\n">>,
     <<"{}">>,
     <<"[]">>,
     <<"backtick", "backtick", "backtick", "json", "\n", "null", "\n",
       "backtick", "backtick", "backtick">>,
     <<"prosa", " ", "{completa}">>,
     <<"backtick", "backtick", "backtick", "json", "\n", "{completa}">>,
     <<"{completa}", "\n", "{sin_monto}">>,
     <<>>}

\* values of datetime.now(): 2024-03-01 at midnight, and later that day
Ahoras ==
    {[dia |-> YmdToOrd(2024, 3, 1), hora |-> 0],
     [dia |-> YmdToOrd(2024, 3, 1), hora |-> 1]}

\* the exceptions requests.post and raise_for_status raise, and their bases
ExcepcionesWebhook == {"Timeout", "ConnectionError", "HTTPError"}

\* WebhookCapturada without the except clause for RequestException
WebhookCapturadaSinHttp(excepcion) ==
    \/ excepcion = "Timeout"
    \/ excepcion = "ConnectionError"

\* the except clauses of lines 434-443; HTTPError is a RequestException
WebhookCapturada(excepcion) ==
    \/ excepcion = "Timeout"
    \/ excepcion = "ConnectionError"
    \/ excepcion \in {"HTTPError", "RequestException"}

\* the time budget of the invocation, in clock ticks
Presupuesto == 2

\* the clock is not advanced past this tick
MaxReloj == Presupuesto + 2

(***************************************************************************)
(* State of one invocation of handler                                      *)
(***************************************************************************)
VARIABLES
    event,            \* the event dict
    environ,          \* os.environ
    pc,               \* the statement handler is at
    reloj,            \* time.time(), in ticks
    start_time,       \* line 193
    bucket_name,      \* line 213, None until assigned
    file_key,         \* line 214, None until assigned
    file_size,        \* line 245, None until assigned
    mime_type,        \* lines 262-264, None until assigned
    llamadas,         \* the collaborator calls made so far, in order
    raw_json_text,    \* line 379, None until assigned
    resultado_final,  \* line 398, None until assigned
    enviados,         \* the POSTs issued: url and JSON body
    response,         \* the value handler returned, None while it runs
    rut_string,       \* argument of validar_formato_rut
    rut_validado,     \* its result, None until it has run
    fechas_entrada,   \* arguments of procesar_fechas_factura and the time
    fechas_salida     \* its result, None until it has run

vars ==
    <<event, environ, pc, reloj, start_time, bucket_name, file_key, file_size,
      mime_type, llamadas, raw_json_text, resultado_final, enviados, response,
      rut_string, rut_validado, fechas_entrada, fechas_salida>>

varsHandler ==
    <<event, environ, pc, reloj, start_time, bucket_name, file_key, file_size,
      mime_type, llamadas, raw_json_text, resultado_final, enviados, response>>

varsFunciones == <<rut_string, rut_validado, fechas_entrada, fechas_salida>>

\* no helper is being exercised on its own
FuncionesEnReposo ==
    /\ rut_string = None
    /\ rut_validado = None
    /\ fechas_entrada = None
    /\ fechas_salida = None

HandlerInit(estado) ==
    /\ pc = estado
    /\ reloj = 0
    /\ start_time = 0
    /\ bucket_name = None
    /\ file_key = None
    /\ file_size = None
    /\ mime_type = None
    /\ llamadas = <<>>
    /\ raw_json_text = None
    /\ resultado_final = None
    /\ enviados = <<>>
    /\ response = None

Init ==
    /\ event \in Eventos
    /\ environ \in Entornos
    /\ HandlerInit("localizar")
    /\ FuncionesEnReposo

\* the except clause of lines 457-467: handler returns the 500 response
Devolver500(error) ==
    /\ response' = Some(RespuestaError(error, reloj - start_time))
    /\ pc' = "fin"

\* lines 200-217
Localizar ==
    /\ pc = "localizar"
    /\ LET doc == LocalizarDocumento(DictGet(event, "path", None))
       IN  IF doc.ok
           THEN /\ bucket_name' = Some(doc.bucket_name)
                /\ file_key' = Some(doc.file_key)
                /\ pc' = "head_object"
                /\ UNCHANGED <<response, reloj>>
           ELSE /\ UNCHANGED <<bucket_name, file_key, reloj>>
                /\ Devolver500(doc.error)
    /\ UNCHANGED <<event, environ, start_time, file_size, mime_type, llamadas,
                   raw_json_text, resultado_final, enviados>>
    /\ UNCHANGED varsFunciones

\* HeadObject with the failure of the existence check only logged
HeadObjectSinComprobar ==
    /\ pc = "head_object"
    /\ \E ok \in BOOLEAN :
        llamadas' = Append(llamadas,
            [op |-> "head_object", estado |-> IF ok THEN "ok" ELSE "error"])
    /\ pc' = "get_object"
    /\ UNCHANGED <<event, environ, reloj, start_time, bucket_name, file_key,
                   file_size, mime_type, raw_json_text, resultado_final, enviados,
                   response>>
    /\ UNCHANGED varsFunciones

\* lines 229-235: the existence check
HeadObject ==
    /\ pc = "head_object"
    /\ \E ok \in BOOLEAN :
        /\ llamadas' = Append(llamadas,
               [op |-> "head_object", estado |-> IF ok THEN "ok" ELSE "error"])
        /\ IF ok
           THEN pc' = "get_object" /\ UNCHANGED <<response, reloj>>
           ELSE UNCHANGED reloj /\ Devolver500("el archivo no existe")
    /\ UNCHANGED <<event, environ, start_time, bucket_name, file_key, file_size,
                   mime_type, raw_json_text, resultado_final, enviados>>
    /\ UNCHANGED varsFunciones

\* ClasificarTamano with the empty-file test comparing below zero
ClasificarTamanoSinVacio(size) ==
    IF size > LimiteAviso THEN "aviso"
    ELSE IF size < 0 THEN "vacio"
    ELSE "normal"

\* lines 253-256: "aviso" only logs, "vacio" raises
ClasificarTamano(size) ==
    IF size > LimiteAviso THEN "aviso"
    ELSE IF size = 0 THEN "vacio"
    ELSE "normal"

\* lines 238-264: the transfer, the size check and the content type
GetObject ==
    /\ pc = "get_object"
    /\ \E ok \in BOOLEAN, size \in Tamanos :
        /\ llamadas' = Append(llamadas,
               [op |-> "get_object", estado |-> IF ok THEN "ok" ELSE "error"])
        /\ IF ~ok
           THEN /\ UNCHANGED <<file_size, mime_type, reloj>>
                /\ Devolver500("error al descargar")
           ELSE /\ file_size' = Some(size)
                /\ IF ClasificarTamano(size) = "vacio"
                   THEN /\ UNCHANGED <<mime_type, reloj>>
                        /\ Devolver500("archivo vacio")
                   ELSE /\ mime_type' = Some(MimeType(Val(file_key)))
                        /\ pc' = "generate_content"
                        /\ UNCHANGED <<response, reloj>>
    /\ UNCHANGED <<event, environ, start_time, bucket_name, file_key,
                   raw_json_text, resultado_final, enviados>>
    /\ UNCHANGED varsFunciones

\* lines 266-339: handler enters model.generate_content and blocks in it
GenerateContent ==
    /\ pc = "generate_content"
    /\ llamadas' = Append(llamadas, [op |-> "generate_content", estado |-> "pendiente"])
    /\ pc' = "esperando_gemini"
    /\ UNCHANGED <<event, environ, reloj, start_time, bucket_name, file_key,
                   file_size, mime_type, raw_json_text, resultado_final, enviados,
                   response>>
    /\ UNCHANGED varsFunciones

\* line 339: time passes while the model has not answered; the call is made
\* without a timeout, so nothing in handler ends the wait
EsperarGemini ==
    /\ pc = "esperando_gemini"
    /\ reloj < MaxReloj
    /\ reloj' = reloj + 1
    /\ UNCHANGED <<event, environ, pc, start_time, bucket_name, file_key,
                   file_size, mime_type, llamadas, raw_json_text, resultado_final,
                   enviados, response>>
    /\ UNCHANGED varsFunciones

\* the outcome of the pending call is recorded
TerminarLlamada(estado) ==
    llamadas' = [llamadas EXCEPT ![Len(llamadas)].estado = estado]

\* lines 341-376: generate_content raised
GeminiFalla ==
    /\ pc = "esperando_gemini"
    /\ TerminarLlamada("error")
    /\ \E fecha_actual \in Ahoras :
        response' = Some(RespuestaGeminiError(fecha_actual,
                             DictGet(event, "quoting_batch_id", None),
                             Val(file_key), "gemini_error"))
    /\ pc' = "fin"
    /\ UNCHANGED <<event, environ, reloj, start_time, bucket_name, file_key,
                   file_size, mime_type, raw_json_text, resultado_final, enviados>>
    /\ UNCHANGED varsFunciones

\* lines 340, 379-408: generate_content returned; texto = None is a response
\* whose .text accessor raises
GeminiResponde ==
    /\ pc = "esperando_gemini"
    /\ TerminarLlamada("ok")
    /\ \E texto \in {None} \cup {Some(t) : t \in Textos}, fecha_actual \in Ahoras :
        /\ raw_json_text' = texto
        /\ IF IsNone(texto)
           THEN UNCHANGED resultado_final /\ Devolver500("respuesta sin texto")
           ELSE LET leido == ParsearRespuesta(Val(texto))
                    datos_validados == procesar_datos_factura(leido.value)
                IN  IF ~leido.ok
                    THEN UNCHANGED resultado_final /\ Devolver500("JSONDecodeError")
                    ELSE IF datos_validados.kind # "dict"
                    THEN UNCHANGED resultado_final /\ Devolver500("AttributeError")
                    ELSE /\ resultado_final' =
                                Some(ResultadoFinal(datos_validados.d, fecha_actual,
                                         DictGet(event, "quoting_batch_id", None),
                                         Val(file_key)))
                         /\ pc' = "webhook"
                         /\ UNCHANGED response
    /\ UNCHANGED <<event, environ, reloj, start_time, bucket_name, file_key,
                   file_size, mime_type, enviados>>
    /\ UNCHANGED varsFunciones

\* lines 412-415
WebhookUrl ==
    IF DictGet(event, "environment", Some("production")) = Some("development")
    THEN DictGet(environ, "WEBHOOK_URL_DEV", None)
    ELSE DictGet(environ, "WEBHOOK_URL", None)

\* lines 417-455: the POST when a URL is configured, then the 200 response;
\* resultado = "ok" is a 2xx answer, anything else the exception raised
Webhook ==
    /\ pc = "webhook"
    /\ IF IsNone(WebhookUrl) \/ WebhookUrl = Some("")
       THEN /\ UNCHANGED <<enviados, llamadas>>
            /\ response' = Some(RespuestaExitosa(Val(resultado_final), reloj - start_time))
       ELSE \E resultado \in {"ok"} \cup ExcepcionesWebhook :
            /\ enviados' = Append(enviados,
                   [url |-> Val(WebhookUrl), json |-> Val(resultado_final)])
            /\ llamadas' = Append(llamadas,
                   [op |-> "post", estado |-> IF resultado = "ok" THEN "ok" ELSE "error"])
            /\ response' =
                   IF resultado = "ok" \/ WebhookCapturada(resultado)
                   THEN Some(RespuestaExitosa(Val(resultado_final), reloj - start_time))
                   ELSE Some(RespuestaError(resultado, reloj - start_time))
    /\ pc' = "fin"
    /\ UNCHANGED <<event, environ, reloj, start_time, bucket_name, file_key,
                   file_size, mime_type, raw_json_text, resultado_final>>
    /\ UNCHANGED varsFunciones

Next ==
    \/ Localizar
    \/ HeadObject
    \/ GetObject
    \/ GenerateContent
    \/ EsperarGemini
    \/ GeminiFalla
    \/ GeminiResponde
    \/ Webhook

Spec == Init /\ [][Next]_vars

(***************************************************************************)
(* validar_formato_rut on its own: one call on one input                   *)
(***************************************************************************)
\* numeric bodies: 7 and 8 digits, too short, too long, leading zeros,
\* a letter among the digits, and none
CuerposRut ==
    {<<"1", "2", "3", "4", "5", "6", "7">>,
     <<"1", "2", "3", "4", "5", "6", "7", "8">>,
     <<"1", "2", "3", "4", "5", "6">>,
     <<"1", "2", "3", "4", "5", "6", "7", "8", "9">>,
     <<"0", "1", "2", "3", "4", "5", "6">>,
     <<"0", "1", "2", "3", "4", "5", "6", "7">>,
     <<"9">>,
     <<"1", "2", "a", "4", "5", "6", "7">>,
     <<>>}

SeparadoresRut == {<<>>, <<"-">>, <<"-", "-">>}

\* check characters: none, digits, k in both cases, a letter, two digits
VerificadoresRut ==
    {<<>>, <<"5">>, <<"0">>, <<"k">>, <<"K">>, <<"X">>, <<"8", "9">>}

\* the ways the text is punctuated: as is, with thousands dots, with spaces
EstilosRut == {"plano", "puntos", "espacios"}

EscribirRut(cuerpo, separador, dv, estilo) ==
    CASE estilo = "plano" -> cuerpo \o separador \o dv
      [] estilo = "puntos" -> FormatearNumero(cuerpo, 0, <<>>) \o separador \o dv
      [] estilo = "espacios" -> <<" ">> \o cuerpo \o <<" ">> \o separador \o dv \o <<" ">>

RutEntradas ==
    {None, Some(<<>>)} \cup
    {Some(EscribirRut(c, g, v, e)) :
        c \in CuerposRut, g \in SeparadoresRut, v \in VerificadoresRut, e \in EstilosRut}

InitRut ==
    /\ event = <<>>
    /\ environ = <<>>
    /\ HandlerInit("reposo")
    /\ rut_string \in {Some(r) : r \in RutEntradas}
    /\ rut_validado = None
    /\ fechas_entrada = None
    /\ fechas_salida = None

ValidarRut ==
    /\ rut_string # None
    /\ rut_validado = None
    /\ rut_validado' = Some(validar_formato_rut(Val(rut_string)))
    /\ UNCHANGED <<rut_string, fechas_entrada, fechas_salida>>
    /\ UNCHANGED varsHandler

NextRut == ValidarRut

SpecRut == InitRut /\ [][NextRut]_vars

(***************************************************************************)
(* procesar_fechas_factura on its own: one call on one pair of inputs      *)
(***************************************************************************)
FechasEntradas ==
    {None, Some(<<>>)} \cup
    {Some(f) : f \in
        {<<"2", "0", "2", "4", "-", "0", "1", "-", "0", "1">>,
         <<"2", "0", "2", "4", "-", "1", "-", "1">>,
         <<"2", "0", "2", "4", "-", "0", "1", "-", "3", "1">>,
         <<"2", "0", "2", "4", "-", "0", "2", "-", "3", "0">>,
         <<"0", "1", "/", "0", "2", "/", "2", "0", "2", "4">>,
         <<"2", "0", "2", "3", "-", "1", "2", "-", "1", "5">>,
         <<"2", "0", "2", "4", "-", "0", "3", "-", "0", "1">>,
         <<"2", "0", "2", "4", "-", "0", "6", "-", "3", "0">>,
         <<"9", "9", "9", "9", "-", "1", "2", "-", "1", "5">>}}

\* values of datetime.now() around the dates above
AhorasFechas ==
    {[dia |-> YmdToOrd(2024, 3, 1), hora |-> 0],
     [dia |-> YmdToOrd(2024, 3, 1), hora |-> 1],
     [dia |-> YmdToOrd(2024, 1, 31), hora |-> 0],
     [dia |-> YmdToOrd(2024, 1, 31), hora |-> 1],
     [dia |-> YmdToOrd(2023, 12, 31), hora |-> 1]}

InitFechas ==
    /\ event = <<>>
    /\ environ = <<>>
    /\ HandlerInit("reposo")
    /\ rut_string = None
    /\ rut_validado = None
    /\ fechas_entrada \in
           {Some([invoice_date |-> i, due_date |-> d, fecha_actual |-> a]) :
               i \in FechasEntradas, d \in FechasEntradas, a \in AhorasFechas}
    /\ fechas_salida = None

ProcesarFechas ==
    /\ fechas_entrada # None
    /\ fechas_salida = None
    /\ fechas_salida' =
           Some(procesar_fechas_factura(Val(fechas_entrada).invoice_date,
                                        Val(fechas_entrada).due_date,
                                        Val(fechas_entrada).fecha_actual))
    /\ UNCHANGED <<rut_string, rut_validado, fechas_entrada>>
    /\ UNCHANGED varsHandler

NextFechas == ProcesarFechas

SpecFechas == InitFechas /\ [][NextFechas]_vars

(***************************************************************************)
(* Properties                                                              *)
(***************************************************************************)
Terminado == pc = "fin" /\ response # None

Respuesta == Val(response)

\* the model call was made and raised
GeminiFallo ==
    \E i \in 1..Len(llamadas) :
        llamadas[i].op = "generate_content" /\ llamadas[i].estado = "error"

\* the model call was made
GeminiInvocado == \E i \in 1..Len(llamadas) : llamadas[i].op = "generate_content"

\* C1: when the path is valid, the document was fetched non-empty and
\* generate_content raises, handler returns statusCode 200 (not 500) and the
\* extracted_data has every invoice field null, total_amount 0.0, dias_mora 0,
\* and values only in fecha_actual, quoting_batch_id and path_document.
C1_DegradedSuccess ==
    (Terminado /\ GeminiFallo) =>
        /\ Respuesta.statusCode = 200
        /\ "extracted_data" \in DOMAIN Respuesta.body
        /\ LET datos == Respuesta.body.extracted_data
           IN  /\ DOMAIN datos = CamposResultado
               /\ \A k \in CamposFactura \ {"total_amount"} : datos[k] = None
               /\ datos["total_amount"] = Some(0)
               /\ datos["dias_mora"] = 0
               /\ datos["fecha_actual"] \in {Strftime(a.dia) : a \in Ahoras}
               /\ datos["quoting_batch_id"] = DictGet(event, "quoting_batch_id", None)
               /\ datos["path_document"] = Val(file_key)

C1_Witness ==
    /\ Terminado
    /\ GeminiFallo
    /\ file_size # None
    /\ Respuesta.statusCode = 200
    /\ Respuesta.body.extracted_data["quoting_batch_id"] = Some("batch-1")

\* C2: handler never waits on the model call past the caller's remaining-time
\* budget: a call that has not answered within the budget is abandoned as a
\* model timeout and the invocation returns the degraded 200.
C2_BudgetBounded ==
    (pc = "esperando_gemini") => (reloj - start_time <= Presupuesto)

\* C3: once the final record is assembled, the statusCode, the message and the
\* extracted_data of the response are fixed by that record alone: they are the
\* same whether the POST succeeded, timed out, failed to connect or got a
\* non-2xx status, and never a 500.
C3_WebhookInvisible ==
    (Terminado /\ resultado_final # None) =>
        /\ Respuesta.statusCode = 200
        /\ DOMAIN Respuesta.body = {"message", "extracted_data", "processing_time"}
        /\ Respuesta.body.message = "Factura procesada exitosamente!"
        /\ Respuesta.body.extracted_data = Val(resultado_final)

C3_Witness ==
    /\ Terminado
    /\ Len(enviados) = 1
    /\ llamadas[Len(llamadas)] = [op |-> "post", estado |-> "error"]
    /\ Respuesta.statusCode = 200

\* a webhook URL is configured for the selected environment
UrlConfigurada == ~IsNone(WebhookUrl) /\ WebhookUrl # Some("")

\* C4: whenever handler returns statusCode 200, normal or degraded, and a
\* webhook URL is configured, exactly one POST whose JSON body equals the
\* returned extracted_data was issued; with no URL configured, no POST.
C4_BothChannels ==
    (Terminado /\ Respuesta.statusCode = 200) =>
        IF UrlConfigurada
        THEN /\ Len(enviados) = 1
             /\ enviados[1].json = Respuesta.body.extracted_data
        ELSE Len(enviados) = 0

\* C5: every response of handler, the normal 200, the degraded 200 and the
\* 500, carries processing_time, the time elapsed since the invocation began.
C5_ProcessingTime ==
    Terminado =>
        /\ "processing_time" \in DOMAIN Respuesta.body
        /\ Respuesta.body.processing_time = reloj - start_time

\* the text, once fences and white space are stripped, is one JSON object
DecodificaRegistro(texto) ==
    LET limpio == LimpiarTexto(texto)
    IN  /\ Len(limpio) = 1
        /\ limpio[1] \in {"{completa}", "{sin_monto}", "{monto_nulo}", "{}"}

\* C6: when the model call succeeds but its text does not decode as a JSON
\* record, handler returns 500 with an error message, never a 200 with
\* default data, and no webhook POST is issued.
C6_ParseFailFast ==
    (Terminado /\ raw_json_text # None /\ ~DecodificaRegistro(Val(raw_json_text))) =>
        /\ Respuesta.statusCode = 500
        /\ "error" \in DOMAIN Respuesta.body
        /\ "extracted_data" \notin DOMAIN Respuesta.body
        /\ enviados = <<>>

C6_Witness ==
    /\ Terminado
    /\ raw_json_text = Some(<<"prosa", " ", "{completa}">>)
    /\ Respuesta.statusCode = 500

\* C7: a downloaded document of 0 bytes makes handler return 500 with an
\* error, whatever the batch id, environment and extension, and the model is
\* never invoked in that invocation.
C7_EmptyFile ==
    (file_size = Some(0)) =>
        /\ Terminado
        /\ Respuesta.statusCode = 500
        /\ "error" \in DOMAIN Respuesta.body
        /\ ~GeminiInvocado
        /\ enviados = <<>>

C7_Witness ==
    /\ file_size = Some(0)
    /\ Terminado
    /\ Respuesta.statusCode = 500
    /\ Len(llamadas) = 2

\* the input with dots and spaces removed
SinPuntosNiEspacios(s) == SelectSeq(s, LAMBDA c : c \notin {".", " "})

\* n digits of value at least 1,000,000, an optional hyphen, one check character
RutDeLargo(t, n) ==
    /\ Len(t) \in {n + 1, n + 2}
    /\ \A i \in 1..n : IsDigitChar(t[i])
    /\ StrToInt(SubSeq(t, 1, n)) >= 1000000
    /\ (Len(t) = n + 2) => (t[n + 1] = "-")
    /\ t[Len(t)] \in DigitChars \cup {"k", "K"}

RutAceptable(s) ==
    \E n \in {7, 8} : RutDeLargo(SinPuntosNiEspacios(s), n)

\* digits grouped in threes from the right, a hyphen, one check character
RutBienFormado(r) ==
    /\ Len(r) >= 3
    /\ r[Len(r) - 1] = "-"
    /\ r[Len(r)] \in DigitChars \cup {"K"}
    /\ r[1] # "."
    /\ \A j \in 1..(Len(r) - 2) :
           IF j % 4 = 0 THEN r[Len(r) - 1 - j] = "." ELSE IsDigitChar(r[Len(r) - 1 - j])

\* C8: validar_formato_rut returns null or the numeric body grouped in 3s with
\* '.', then '-' and exactly one check character in 0-9 or K; it is non-null
\* exactly when the input without dots and spaces is 7 to 8 digits of value at
\* least 1,000,000, an optional hyphen and one check character in 0-9, k, K.
C8_RutValidator ==
    (rut_validado # None) =>
        LET entrada == Val(rut_string)
            salida == Val(rut_validado)
        IN  /\ (salida # None) <=> (entrada # None /\ RutAceptable(Val(entrada)))
            /\ (salida # None) =>
                   /\ RutBienFormado(Val(salida))
                   /\ StrToInt(SinPuntosNiEspacios(
                          SubSeq(Val(salida), 1, Len(Val(salida)) - 2))) =
                      StrToInt(SubSeq(SinPuntosNiEspacios(Val(entrada)), 1,
                          Len(SinPuntosNiEspacios(
                              SubSeq(Val(salida), 1, Len(Val(salida)) - 2)))))

Fecha20240131 == <<"2", "0", "2", "4", "-", "0", "1", "-", "3", "1">>

\* the due date the claim describes, as an ordinal: the parsed dueDate, else
\* invoiceDate + 30 days, else none
VencimientoEsperado(entrada) ==
    IF ~IsNone(ParsearFecha(entrada.due_date)) THEN ParsearFecha(entrada.due_date)
    ELSE IF ~IsNone(ParsearFecha(entrada.invoice_date))
    THEN Some(Val(ParsearFecha(entrada.invoice_date)) + 30)
    ELSE None

\* whole days from the due date (at 00:00) to the current time, 0 if not past
MoraEsperada(vencimiento, fecha_actual) ==
    IF IsNone(vencimiento) THEN 0
    ELSE IF Val(vencimiento) < fecha_actual.dia THEN fecha_actual.dia - Val(vencimiento)
    ELSE 0

\* the example of the claim: invoice 2024-01-01, no due date, on 2024-03-01
EjemploFechas(entrada) ==
    /\ entrada.invoice_date = Some(Fecha20240101)
    /\ entrada.due_date = None
    /\ entrada.fecha_actual.dia = YmdToOrd(2024, 3, 1)

\* the due date and dias_mora of the result are the expected ones
FechasSegunEsperado(entrada, salida, vencimiento) ==
    /\ salida.due_date =
           IF IsNone(vencimiento) THEN None ELSE Some(Strftime(Val(vencimiento)))
    /\ salida.dias_mora = MoraEsperada(vencimiento, entrada.fecha_actual)
    /\ salida.dias_mora >= 0
    /\ EjemploFechas(entrada) =>
           (salida.due_date = Some(Fecha20240131) /\ salida.dias_mora = 30)

\* C9 as stated: for every pair of inputs and every current date, due_date is
\* the parsed dueDate, else invoiceDate + 30 calendar days when invoiceDate
\* parses, else null; dias_mora is the whole days from that due date to now
\* when it is past and 0 otherwise, never negative.
C9_AsStated ==
    (fechas_salida # None) =>
        FechasSegunEsperado(Val(fechas_entrada), Val(fechas_salida),
                            VencimientoEsperado(Val(fechas_entrada)))

\* invoiceDate + 30 days would fall after 9999-12-31, the last datetime
PlazoDesbordado(entrada) ==
    /\ IsNone(ParsearFecha(entrada.due_date))
    /\ ~IsNone(ParsearFecha(entrada.invoice_date))
    /\ Val(ParsearFecha(entrada.invoice_date)) + 30 > YmdToOrd(9999, 12, 31)

\* C9: as stated, except that when dueDate does not parse and invoiceDate + 30
\* days would fall after 9999-12-31 the result has due_date null and
\* dias_mora 0.
C9_DateProcessor ==
    (fechas_salida # None) =>
        FechasSegunEsperado(Val(fechas_entrada), Val(fechas_salida),
            IF PlazoDesbordado(Val(fechas_entrada)) THEN None
            ELSE VencimientoEsperado(Val(fechas_entrada)))

C9_Witness ==
    /\ fechas_salida # None
    /\ EjemploFechas(Val(fechas_entrada))
    /\ Val(fechas_salida).dias_mora = 30

\* the path as given in the event, <<>> when it is missing
RutaDelEvento ==
    IF IsNone(DictGet(event, "path", None)) THEN <<>>
    ELSE Val(DictGet(event, "path", None))

\* the path begins with s3:// (a URI scheme is case-insensitive)
EmpiezaConS3(ruta) ==
    Len(ruta) >= 5 /\ StrLower(SubSeq(ruta, 1, 5)) = <<"s", "3", ":", "/", "/">>

\* B of s3://B/K: the text between s3:// and the next '/'
ContenedorDe(ruta) == BeforeChar(SubSeq(ruta, 6, Len(ruta)), "/")

\* K of s3://B/K: the text after the '/' that ends B, less leading separators
ClaveDe(ruta) ==
    LStrip(SubSeq(ruta, 6 + Len(ContenedorDe(ruta)), Len(ruta)), {"/"})

\* the path has the form s3://B/K with B and K non-empty
RutaValida(ruta) ==
    EmpiezaConS3(ruta) /\ ContenedorDe(ruta) # <<>> /\ ClaveDe(ruta) # <<>>

\* C10: for every path s3://B/K with B and K non-empty the handler addresses
\* storage with container exactly B and key exactly K; for a missing path, a
\* scheme other than s3 or an empty bucket or key it returns 500 without any
\* storage, model or webhook call.
C10_Locator ==
    /\ (RutaValida(RutaDelEvento) /\ pc # "localizar") =>
           /\ bucket_name = Some(ContenedorDe(RutaDelEvento))
           /\ file_key = Some(ClaveDe(RutaDelEvento))
    /\ (~RutaValida(RutaDelEvento) /\ pc # "localizar") =>
           /\ Terminado
           /\ Respuesta.statusCode = 500
           /\ llamadas = <<>>
           /\ enviados = <<>>

\* the candidate record the model's text decoded to
Candidato == ValorJson(LimpiarTexto(Val(raw_json_text))[1]).d

\* the amount of the claim: the candidate's when it gives one, else 0.0
MontoEsperado(candidato) ==
    IF "total_amount" \in DOMAIN candidato /\ candidato["total_amount"] # None
    THEN candidato["total_amount"]
    ELSE Some(0)

\* C11: the normalized record's total_amount is never null: it is the
\* candidate's amount when the candidate gives one and 0.0 when the key is
\* missing or its value is null, so every 200 response carries a number.
C11_AmountDefault ==
    /\ (resultado_final # None) =>
           /\ Val(resultado_final)["total_amount"] # None
           /\ Val(resultado_final)["total_amount"] = MontoEsperado(Candidato)
    /\ (Terminado /\ Respuesta.statusCode = 200) =>
           Respuesta.body.extracted_data["total_amount"] # None

\* the collaborator calls of one invocation, in the order of the code
Etapas == <<"head_object", "get_object", "generate_content", "post">>

\* some call in the log is the webhook POST
PostEmitido == \E i \in 1..Len(llamadas) : llamadas[i].op = "post"

\* C12: in every invocation the collaborator calls are made in the order
\* head_object, get_object, generate_content, POST, each at most once and only
\* after every earlier one was made and succeeded; no transfer follows a
\* failed existence check and no POST is made in an invocation ending in 500.
C12_StageOrder ==
    /\ Len(llamadas) <= Len(Etapas)
    /\ \A i \in 1..Len(llamadas) : llamadas[i].op = Etapas[i]
    /\ \A i \in 1..(Len(llamadas) - 1) : llamadas[i].estado = "ok"
    /\ Len(enviados) = (IF PostEmitido THEN 1 ELSE 0)
    /\ (Terminado /\ Respuesta.statusCode = 500) => ~PostEmitido

C12_Witness ==
    /\ Terminado
    /\ Len(llamadas) = 4
    /\ llamadas[4].op = "post"
    /\ \A i \in 1..3 : llamadas[i].estado = "ok"

====
